---- MODULE Spec2Model ----
(***************************************************************************)
(* Model of libratom's entity extraction pipeline                          *)
(* (src/libratom/lib/entities.py): the job function process_message, the   *)
(* worker pool that runs it over chunks of job descriptors, and the serial *)
(* controller loop of extract_entities that consumes the unordered         *)
(* outcomes, stages records in the SQLAlchemy session, commits in batches, *)
(* reports progress and handles KeyboardInterrupt.                         *)
(*                                                                         *)
(* One action is one handler: Consume is one whole iteration of the        *)
(* controller's for loop, Finish is the code after the loop up to          *)
(* "return 0", Interrupt is the "except KeyboardInterrupt" handler up to   *)
(* "return 1".  Timestamps and message text are left out: no branch of the *)
(* controller reads them.                                                  *)
(***************************************************************************)
EXTENDS FiniteSets, Integers, Sequences, TLC

(* ------------------------------ bounds --------------------------------- *)
\* messages the message source yields at most
MaxJobs == 2
\* largest commit threshold the environment configures
MaxBatch == 2

(* --------------------------- program constants ------------------------- *)
\* values of RATOM_MSG_BATCH_SIZE, the chunksize handed to imap_unordered
ChunkSizes == {1, 2}
\* interval between progress updates, as the environment sets it
MSG_PROGRESS_STEP == 2
\* processes of the multiprocessing.Pool
jobs == 2

Workers == 1..jobs

\* Optional[T]: None is the empty set, a value v is {v}
None == {}
Some(v) == {v}

\* the file_report table the session holds when the run starts
FileReports ==
    { [id |-> 1, path |-> "/a/x.pst"],
      [id |-> 2, path |-> "/a/dup.pst"],
      [id |-> 3, path |-> "/a/dup.pst"] }

Paths == {"/a/x.pst", "/a/missing.pst", "/a/dup.pst"}

\* lengths of the attachment metadata list of a message
AttachmentCounts == {0, 1}
\* how many (text, label) pairs an analysis may return
EntityCounts == {0, 1, 2}

\* exceptions the analysis call can raise, as their args tuple
Exceptions == { <<>>, <<"E088">> }

\* what get_messages yields: one job descriptor per message; `raises` and
\* `exc` say what spacy_model(message) will do, `ents` how many pairs it finds
JobKinds ==
    { [filepath |-> p, attachments |-> a, raises |-> FALSE, exc |-> <<>>, ents |-> n] :
        p \in Paths, a \in AttachmentCounts, n \in EntityCounts }
    \cup
    { [filepath |-> "/a/x.pst", attachments |-> 0, raises |-> TRUE, exc |-> e, ents |-> 0] :
        e \in Exceptions }

Range(s) == { s[i] : i \in 1..Len(s) }

VARIABLES
    msg_batch_size,     \* RATOM_MSG_BATCH_SIZE, read from the environment
    commit_batch_size,  \* RATOM_DB_COMMIT_BATCH_SIZE, read from the environment
    yielded,            \* job descriptors get_messages has yielded so far
    src_done,           \* get_messages is exhausted
    inflight,           \* message ids of the chunk each worker runs (<<>>: idle)
    outq,               \* outcomes ready for the controller, in completion order
    pc,                 \* Running, Completed, Cancelled or Raised
    status,             \* the value returned (None until the function returns)
    new_entities,       \* the controller's entity buffer
    msg_count,          \* the loop counter of enumerate(..., start=1)
    pending,            \* records added to the session and not yet committed
    store,              \* committed rows
    progress,           \* the increments update_progress was called with
    \* history of the run, read by the properties only
    commits,            \* commits that succeeded
    commit_failures,    \* commits that failed
    batch,              \* records created since the last commit attempt
    durable,            \* union of the batches whose commit succeeded
    dropped,            \* union of the batches whose commit failed
    buffered_total,     \* pairs in the consumed outcomes without an error
    raised_ids,         \* consumed outcomes whose analysis raised
    multi,              \* some consumed outcome produced more than one pair
    interrupted,        \* the controller observed KeyboardInterrupt
    lookup_error,       \* the last lookup raised though one FileReport matched
    seen,               \* what the consumed outcomes without an error held
    \* the worker processes of the pool
    initialized,        \* times the initializer has run in each worker
    sigint,             \* what SIGINT does in each worker: "default" or "ignore"
    signals,            \* interrupts delivered to worker processes so far
    hit,                \* message ids a worker held when an interrupt reached it
    lost,               \* message ids dropped because an interrupt ended a worker
    \* export_messages_from_file
    msg_ids,            \* the message ids to export, as given
    attempted,          \* the ids the loop has gone through, in order
    files,              \* the .eml files in the destination folder
    warnings,           \* the ids of the "Skipping message" warnings, in order
    export_pc           \* idle, loop, returned or raised

history == <<commits, commit_failures, batch, durable, dropped, buffered_total,
             raised_ids, multi, interrupted, lookup_error, seen>>
config == <<msg_batch_size, commit_batch_size>>
pool == <<yielded, src_done, inflight, outq>>
controller == <<pc, status, new_entities, msg_count, pending, store, progress>>
processes == <<initialized, sigint, signals, hit, lost>>
export == <<msg_ids, attempted, files, warnings, export_pc>>
vars == <<config, pool, controller, history, processes, export>>

(* ------------------------------ job function --------------------------- *)
\* str(exc) of an exception built from an args tuple
str(exc) == IF exc = <<>> THEN "" ELSE exc[1]

\* doc.ents as a list of (text, label) pairs
doc_ents(job) == [i \in 1..job.ents |-> <<i, "ENT">>]

process_message(job) ==
    LET res == [filepath |-> job.filepath,
                message_id |-> job.message_id,
                attachments |-> job.attachments]
    IN  IF job.raises
        THEN [res |-> res, error |-> Some(str(job.exc))]
        ELSE [res |-> res @@ [entities |-> doc_ents(job)], error |-> None]

\* truth value of the error slot in "if error:"
Truthy(error) == error # None /\ error # Some("")

(* ------------------------------ controller ----------------------------- *)
\* the rows of session.query(FileReport).filter_by(path=filepath)
Matching(filepath) == { fr \in FileReports : fr.path = filepath }

\* the lookup written with .first() in place of .one()
LookupFirstMatch(filepath, lookup_raises) ==
    LET found == Matching(filepath)
    IN  IF ~lookup_raises /\ found # {}
        THEN { (CHOOSE fr \in found : \A other \in found : fr.id <= other.id).id }
        ELSE None

\* session.query(FileReport).filter_by(path=filepath).one() inside try/except
LookupFileReport(filepath, lookup_raises) ==
    LET found == { fr \in FileReports : fr.path = filepath }
    IN  IF ~lookup_raises /\ Cardinality(found) = 1
        THEN { fr.id : fr \in found }
        ELSE None

\* the Message keyed by its arrival position in place of its identifier
MessageByCount(res, file_report) ==
    [type |-> "Message", message |-> msg_count + 1, k |-> 0,
     file_report |-> file_report]

\* Message(pff_identifier=message_id, **res)
Message(res, file_report) ==
    [type |-> "Message", message |-> res.message_id, k |-> 0,
     file_report |-> file_report]

\* attachments recorded for the outcome that arrives first only
AttachmentsOfFirst(res, file_report) ==
    IF msg_count > 0 THEN {}
    ELSE { [type |-> "Attachment", message |-> res.message_id, k |-> i,
            file_report |-> file_report] : i \in 1..res.attachments }

\* Attachment(**attachment._asdict(), message=message, file_report=file_report)
Attachments(res, file_report) ==
    { [type |-> "Attachment", message |-> res.message_id, k |-> i,
       file_report |-> file_report] : i \in 1..res.attachments }

\* Entities with the last pair of the outcome left out
EntitiesDropLast(res, file_report) ==
    [i \in 1..(Len(res.entities) - 1) |->
        [type |-> "Entity", message |-> res.message_id, k |-> i,
         file_report |-> file_report]]

Entities(res, file_report) ==
    [i \in 1..Len(res.entities) |->
        [type |-> "Entity", message |-> res.message_id, k |-> i,
         file_report |-> file_report]]

\* the threshold test against twice the configured size
CommitDueDouble(buffer) == Len(buffer) >= 2 * commit_batch_size

\* the threshold test written with > in place of >=
CommitDueStrict(buffer) == Len(buffer) > commit_batch_size

\* len(new_entities) >= RATOM_DB_COMMIT_BATCH_SIZE
CommitDue(buffer) == Len(buffer) >= commit_batch_size

\* not msg_count % MSG_PROGRESS_STEP
ProgressDue(count) == count % MSG_PROGRESS_STEP = 0

\* session.add / session.add_all: the records join the pending set
session_add_all(pend, records) == pend \cup records

\* a commit that writes the Messages and Attachments and leaves the
\* Entities pending
session_commit_parents(st, pend, commit_ok) ==
    IF commit_ok
    THEN [store |-> st \cup { r \in pend : r.type # "Entity" },
          pending |-> { r \in pend : r.type = "Entity" }, raised |-> FALSE]
    ELSE [store |-> st, pending |-> pend, raised |-> TRUE]

\* session.commit(): everything pending becomes durable together, or the
\* commit raises and nothing does
session_commit(st, pend, commit_ok) ==
    IF commit_ok THEN [store |-> st \cup pend, pending |-> {}, raised |-> FALSE]
                 ELSE [store |-> st, pending |-> pend, raised |-> TRUE]

\* a rollback that leaves the pending set in place
session_rollback_keeps(pend) == pend

\* session.rollback(): the pending set is discarded
session_rollback(pend) == {}

\* pool.terminate(), also what leaving the "with" block does:
\* the running jobs and the unconsumed results are thrown away
PoolTerminate ==
    /\ inflight' = [w \in Workers |-> <<>>]
    /\ outq' = <<>>
    /\ UNCHANGED <<yielded, src_done>>

(* ------------------------------ Init ----------------------------------- *)
\* extract_entities has been called and has entered the "with" block
ExtractInit ==
    /\ msg_batch_size \in ChunkSizes
    /\ commit_batch_size \in 1..MaxBatch
    /\ yielded = 0
    /\ src_done \in BOOLEAN
    /\ inflight = [w \in Workers |-> <<>>]
    /\ outq = <<>>
    /\ pc = "Running"
    /\ status = None
    /\ new_entities = <<>>
    /\ msg_count = 0
    /\ pending = {}
    /\ store = {}
    /\ progress = <<>>
    /\ commits = 0
    /\ commit_failures = 0
    /\ batch = {}
    /\ durable = {}
    /\ dropped = {}
    /\ buffered_total = 0
    /\ raised_ids = {}
    /\ multi = FALSE
    /\ interrupted = FALSE
    /\ lookup_error = FALSE
    /\ seen = {}

\* the worker processes are up and each has run its initializer
WorkersReady ==
    /\ initialized = [w \in Workers |-> 1]
    /\ sigint = [w \in Workers |-> "ignore"]
    /\ signals = 0
    /\ hit = {}
    /\ lost = {}

\* no export is under way
ExportIdle ==
    /\ msg_ids = <<>>
    /\ attempted = <<>>
    /\ files = {}
    /\ warnings = <<>>
    /\ export_pc = "idle"

Init == ExtractInit /\ WorkersReady /\ ExportIdle

(* ------------------------------ worker pool ---------------------------- *)
\* an idle worker is handed the next chunk of descriptors, which the pool
\* pulls out of get_messages(files, ...): chunksize of them, fewer only when
\* the source ends.  A descriptor is kept by its message id here; what it
\* holds is drawn when the worker runs it.
WorkerTake(w) ==
    /\ pc = "Running"
    /\ initialized[w] = 1
    /\ inflight[w] = <<>>
    /\ ~src_done
    /\ yielded < MaxJobs
    /\ \E n \in 1..msg_batch_size, last \in BOOLEAN :
        /\ yielded + n <= MaxJobs
        /\ (n < msg_batch_size \/ yielded + n = MaxJobs) => last
        /\ inflight' = [inflight EXCEPT ![w] = [i \in 1..n |-> yielded + i]]
        /\ yielded' = yielded + n
        /\ src_done' = last
    /\ UNCHANGED <<outq, config, processes, export, controller, history>>

\* a worker has run process_message over the descriptors of its chunk and
\* hands the results back together
WorkerDone(w) ==
    /\ pc = "Running"
    /\ inflight[w] # <<>>
    /\ \E kinds \in [1..Len(inflight[w]) -> JobKinds] :
        outq' = outq \o [i \in 1..Len(inflight[w]) |->
                    process_message(kinds[i] @@ [message_id |-> inflight[w][i]])]
    /\ inflight' = [inflight EXCEPT ![w] = <<>>]
    /\ UNCHANGED <<yielded, src_done, controller, history>>
    /\ UNCHANGED <<config, processes, export>>

(* ------------------------------ controller loop ------------------------ *)
\* "if error: ... continue": the outcome is logged and skipped
Skip(res, count) ==
    /\ msg_count' = count
    /\ raised_ids' = raised_ids \cup {res.message_id}
    /\ UNCHANGED <<inflight, yielded, src_done>>
    /\ UNCHANGED <<pc, status, new_entities, pending, store, progress>>
    /\ UNCHANGED <<commits, commit_failures, batch, durable, dropped,
                   buffered_total, multi, interrupted, lookup_error, seen>>

\* res.pop("entities") on a result that has no such key: the KeyError is not
\* caught by "except KeyboardInterrupt" and leaves extract_entities through
\* the "with" block
RaiseKeyError(res, count) ==
    /\ msg_count' = count
    /\ raised_ids' = raised_ids \cup {res.message_id}
    /\ pc' = "Raised"
    /\ inflight' = [w \in Workers |-> <<>>]
    /\ UNCHANGED <<yielded, src_done>>
    /\ UNCHANGED <<status, new_entities, pending, store, progress>>
    /\ UNCHANGED <<commits, commit_failures, batch, durable, dropped,
                   buffered_total, multi, interrupted, lookup_error, seen>>

\* the rest of the loop body for an outcome without an error
Record(res, count, lookup_raises, commit_ok) ==
    LET file_report == LookupFileReport(res.filepath, lookup_raises)
        message == Message(res, file_report)
        entities == Entities(res, file_report)
        added == session_add_all(
                    session_add_all(pending, {message}),
                    Attachments(res, file_report))
        buffer == new_entities \o entities
        due == CommitDue(buffer)
        committed == session_commit(store, session_add_all(added, Range(buffer)),
                                    commit_ok)
        created == batch \cup {message} \cup Attachments(res, file_report)
                         \cup Range(entities)
    IN  /\ msg_count' = count
        /\ new_entities' = IF due THEN <<>> ELSE buffer
        /\ pending' = IF ~due THEN added
                      ELSE IF committed.raised
                           THEN session_rollback(committed.pending)
                           ELSE committed.pending
        /\ store' = IF due THEN committed.store ELSE store
        /\ progress' = IF ProgressDue(count)
                       THEN Append(progress, MSG_PROGRESS_STEP)
                       ELSE progress
        /\ commits' = IF due /\ commit_ok THEN commits + 1 ELSE commits
        /\ commit_failures' = IF due /\ ~commit_ok THEN commit_failures + 1
                              ELSE commit_failures
        /\ batch' = IF due THEN {} ELSE created
        /\ durable' = IF due /\ commit_ok THEN durable \cup created ELSE durable
        /\ dropped' = IF due /\ ~commit_ok THEN dropped \cup created ELSE dropped
        /\ buffered_total' = buffered_total + Len(res.entities)
        /\ multi' = (multi \/ Len(res.entities) > 1)
        /\ lookup_error' = (lookup_raises /\ Cardinality(Matching(res.filepath)) = 1)
        /\ seen' = seen \cup {[message_id |-> res.message_id,
                                attachments |-> res.attachments,
                                entities |-> Len(res.entities),
                                file_report |-> file_report]}
        /\ UNCHANGED <<inflight, yielded, src_done>>
        /\ UNCHANGED <<pc, status, raised_ids, interrupted>>

\* one iteration of "for msg_count, worker_output in enumerate(...)"
Consume ==
    /\ pc = "Running"
    /\ outq # <<>>
    /\ LET worker_output == Head(outq)
           res == worker_output.res
           error == worker_output.error
           count == msg_count + 1
       IN  /\ IF Truthy(error)
              THEN outq' = Tail(outq) /\ Skip(res, count)
              ELSE IF "entities" \notin DOMAIN res
                   THEN outq' = <<>> /\ RaiseKeyError(res, count)
                   ELSE /\ outq' = Tail(outq)
                        /\ \E lookup_raises \in BOOLEAN, commit_ok \in BOOLEAN :
                              Record(res, count, lookup_raises, commit_ok)
    /\ UNCHANGED <<config, processes, export>>

\* Finish without "session.add_all(new_entities)"
FinishWithoutAddAll ==
    /\ pc = "Running"
    /\ src_done
    /\ \A w \in Workers : inflight[w] = <<>>
    /\ outq = <<>>
    /\ progress' = Append(progress, msg_count % MSG_PROGRESS_STEP)
    /\ pc' = "Completed"
    /\ status' = Some(0)
    /\ PoolTerminate
    /\ UNCHANGED <<new_entities, msg_count, pending, store, history>>
    /\ UNCHANGED <<config, processes, export>>

\* the outcome stream is exhausted: the code after the loop, the end of the
\* "with" block and "return 0"
Finish ==
    /\ pc = "Running"
    /\ src_done
    /\ \A w \in Workers : inflight[w] = <<>>
    /\ outq = <<>>
    /\ pending' = session_add_all(pending, Range(new_entities))
    /\ progress' = Append(progress, msg_count % MSG_PROGRESS_STEP)
    /\ pc' = "Completed"
    /\ status' = Some(0)
    /\ PoolTerminate
    /\ UNCHANGED <<new_entities, msg_count, store, history>>
    /\ UNCHANGED <<config, processes, export>>

\* an interrupt handler that flushes and commits what is staged
InterruptCommits ==
    /\ pc = "Running"
    /\ interrupted' = TRUE
    /\ PoolTerminate
    /\ pc' = "Cancelled"
    /\ status' = Some(1)
    /\ store' = store \cup pending \cup Range(new_entities)
    /\ pending' = {}
    /\ UNCHANGED <<new_entities, msg_count, progress>>
    /\ UNCHANGED <<config, processes, export>>
    /\ UNCHANGED <<commits, commit_failures, batch, durable, dropped,
                   buffered_total, raised_ids, multi, lookup_error, seen>>

\* an interrupt handler that stages the buffer and reports the remainder as
\* the code after the loop does
InterruptFlushes ==
    /\ pc = "Running"
    /\ interrupted' = TRUE
    /\ PoolTerminate
    /\ pc' = "Cancelled"
    /\ status' = Some(1)
    /\ pending' = session_add_all(pending, Range(new_entities))
    /\ progress' = Append(progress, msg_count % MSG_PROGRESS_STEP)
    /\ UNCHANGED <<new_entities, msg_count, store, config, processes, export>>
    /\ UNCHANGED <<commits, commit_failures, batch, durable, dropped,
                   buffered_total, raised_ids, multi, lookup_error, seen>>

\* an interrupt handler that rolls the session back
InterruptRollsBack ==
    /\ pc = "Running"
    /\ interrupted' = TRUE
    /\ PoolTerminate
    /\ pc' = "Cancelled"
    /\ status' = Some(1)
    /\ pending' = session_rollback(pending)
    /\ UNCHANGED <<new_entities, msg_count, store, progress>>
    /\ UNCHANGED <<config, processes, export>>
    /\ UNCHANGED <<commits, commit_failures, batch, durable, dropped,
                   buffered_total, raised_ids, multi, lookup_error, seen>>

\* an interrupt handler that falls through to "return 0"
InterruptReturnsZero ==
    /\ pc = "Running"
    /\ interrupted' = TRUE
    /\ PoolTerminate
    /\ pc' = "Cancelled"
    /\ status' = Some(0)
    /\ UNCHANGED <<new_entities, msg_count, pending, store, progress>>
    /\ UNCHANGED <<config, processes, export>>
    /\ UNCHANGED <<commits, commit_failures, batch, durable, dropped,
                   buffered_total, raised_ids, multi, lookup_error, seen>>

\* KeyboardInterrupt is raised in the controller inside the try block: the
\* handler terminates and joins the pool and returns 1
Interrupt ==
    /\ pc = "Running"
    /\ interrupted' = TRUE
    /\ PoolTerminate
    /\ pc' = "Cancelled"
    /\ status' = Some(1)
    /\ UNCHANGED <<new_entities, msg_count, pending, store, progress>>
    /\ UNCHANGED <<config, processes, export>>
    /\ UNCHANGED <<commits, commit_failures, batch, durable, dropped,
                   buffered_total, raised_ids, multi, lookup_error, seen>>

Next ==
    \/ \E w \in Workers : WorkerTake(w)
    \/ \E w \in Workers : WorkerDone(w)
    \/ Consume
    \/ Finish
    \/ Interrupt

Spec == Init /\ [][Next]_vars

TypeOK ==
    /\ pc \in {"Running", "Completed", "Cancelled", "Raised"}
    /\ status \in {None, Some(0), Some(1)}
    /\ msg_batch_size \in ChunkSizes
    /\ commit_batch_size \in 1..MaxBatch
    /\ msg_count \in 0..yielded
    /\ yielded \in 0..MaxJobs
    /\ \A w \in Workers : Len(inflight[w]) <= msg_batch_size
    /\ pending \cup store \cup Range(new_entities) \subseteq
            [type : {"Message", "Attachment", "Entity"}, message : 1..yielded,
             k : EntityCounts, file_report : {None} \cup {Some(fr.id) : fr \in FileReports}]
    /\ lookup_error \in BOOLEAN
    /\ initialized \in [Workers -> {0, 1}]
    /\ sigint \in [Workers -> {"default", "ignore"}]
    /\ export_pc \in {"idle", "loop", "returned", "raised"}

(* ------------------------------ properties ----------------------------- *)
EntityRows(records) == { r \in records : r.type = "Entity" }

\* every descriptor the source yielded has been consumed and the source is
\* exhausted
Drained == src_done /\ msg_count = yielded

\* C1 Cancellation safety: when the run is cancelled, the store holds exactly
\* the rows of the commits that succeeded, nothing of the batch that was being
\* filled, and the function has returned 1.
CancellationSafety ==
    pc = "Cancelled" =>
        /\ status = Some(1)
        /\ store = durable
        /\ store \cap batch = {}

\* a run cancelled after a successful commit, with a partial batch staged and
\* entities in the buffer
CancellationSafetyWitness ==
    /\ pc = "Cancelled"
    /\ commits >= 1
    /\ pending # {}
    /\ new_entities # <<>>

ExpectedProgress(M, S) ==
    [i \in 1..((M \div S) + 1) |-> IF i <= M \div S THEN S ELSE M % S]

\* C4 Progress cadence: an uncancelled run that consumed M outcomes has called
\* the progress callback floor(M/S) times with S and then once with M mod S.
ProgressCadence ==
    pc = "Completed" => progress = ExpectedProgress(msg_count, MSG_PROGRESS_STEP)

\* C5 Batch atomicity, as claimed: without commit failures, whenever k*B
\* entities have been buffered in total, exactly k commits have occurred and
\* the store holds what those batches staged.
BatchAtomicityExact ==
    (commit_failures = 0 /\ buffered_total % commit_batch_size = 0) =>
        /\ commits = buffered_total \div commit_batch_size
        /\ store = durable

\* C5 Batch atomicity, amended: without commit failures, after each outcome
\* the buffer holds fewer than B entities, each of the k commits covered at
\* least B entities (k*B <= total), k = floor(total/B) when no outcome
\* produced more than one entity, and the store holds what the k batches
\* staged.
BatchAtomicity ==
    commit_failures = 0 =>
        /\ Len(new_entities) < commit_batch_size
        /\ commits * commit_batch_size <= buffered_total
        /\ ~multi => commits = buffered_total \div commit_batch_size
        /\ store = durable

\* two commits in a run without failures, one of them for an outcome with
\* several entities
BatchAtomicityWitness ==
    /\ commit_failures = 0
    /\ commits = 2
    /\ multi
    /\ store # {}

\* C6 Propagation policy: extract_entities never leaves by raising; it
\* returns after the stream is drained, or earlier only on an interrupt.
PropagationPolicy ==
    /\ pc # "Raised"
    /\ pc = "Completed" => Drained
    /\ pc = "Cancelled" => interrupted

\* C7 Job function guarantee: the result of a job whose analysis raised has a
\* non-empty string in its error slot, so the controller takes it for an
\* error.
JobFunctionGuarantee ==
    \A i \in 1..Len(outq) :
        "entities" \notin DOMAIN outq[i].res => Truthy(outq[i].error)

\* C8 Idempotent skip: an outcome whose analysis raised leaves no record
\* anywhere, the run goes on, and msg_count counts it.
IdempotentSkip ==
    /\ \A r \in store \cup pending \cup Range(new_entities) :
            r.message \notin raised_ids
    /\ raised_ids # {} => pc # "Raised"
    /\ Cardinality(raised_ids) <= msg_count

\* the step in which a commit fails
FailedCommitStep ==
    commit_failures' > commit_failures =>
        /\ new_entities' = <<>>
        /\ pending' = {}
        /\ store' = store
        /\ pc' = "Running"

\* C9 Commit failure policy: the store is always the union of the batches
\* whose commit succeeded, a dropped batch is nowhere afterwards, and the
\* step in which a commit fails leaves the buffer and the session empty, the
\* store untouched and the run going.
CommitFailurePolicy ==
    /\ [](store = durable)
    /\ [](dropped \cap (store \cup pending \cup Range(new_entities)) = {})
    /\ [][FailedCommitStep]_vars

\* a commit failed, a later commit succeeded
CommitFailureWitness ==
    /\ commit_failures >= 1
    /\ commits >= 1
    /\ dropped # {}
    /\ store # {}
    /\ store \cap dropped = {}

\* a step from a terminal state changes neither the state nor the status
TerminalStays ==
    pc \in {"Completed", "Cancelled"} => (pc' = pc /\ status' = status)

\* C10 Return status: 0 is returned only after the stream is drained with no
\* interrupt, 1 exactly when the controller observed an interrupt, and
\* Completed and Cancelled are terminal and exclude each other.
ReturnStatus ==
    /\ [](status = Some(0) => (pc = "Completed" /\ Drained /\ ~interrupted))
    /\ [](status = Some(1) <=> interrupted)
    /\ [](pc = "Completed" <=> status = Some(0))
    /\ [](pc = "Cancelled" <=> status = Some(1))
    /\ [][TerminalStays]_vars

\* a run cancelled after it consumed an outcome, with descriptors still to come
ReturnStatusWitness ==
    /\ pc = "Cancelled"
    /\ status = Some(1)
    /\ msg_count >= 1
    /\ ~Drained

\* the step that consumes an outcome without an error links every record it
\* creates as the FileReport table tells, stages the Message and goes on
LinkStep ==
    (/\ pc = "Running"
     /\ outq # <<>>
     /\ msg_count' = msg_count + 1
     /\ Head(outq).error = None)
    =>
    LET res == Head(outq).res
        same_path == { fr \in FileReports : fr.path = res.filepath }
        expected == IF Cardinality(same_path) = 1 /\ ~lookup_error'
                    THEN { fr.id : fr \in same_path }
                    ELSE None
        mine == { r \in store' \cup pending' \cup dropped' \cup Range(new_entities') :
                    r.message = res.message_id }
    IN  /\ \E m \in mine \cap (store' \cup pending' \cup dropped') :
                m.type = "Message"
        /\ \A r \in mine : r.file_report = expected
        /\ pc' = "Running"

\* C11 Link resolution: the Message, Attachments and Entities of a successful
\* outcome are linked to the one FileReport whose path is the outcome's
\* filepath; when none or several have that path, or the lookup raises, the
\* link is null, the Message is staged all the same and the run continues.
LinkResolution == [][LinkStep]_vars

\* a linked Message with a linked Entity, and a Message with a null link
LinkResolutionWitness ==
    /\ \E m \in store \cup pending, e \in store \cup Range(new_entities) :
        /\ m.type = "Message" /\ m.file_report = Some(1)
        /\ e.type = "Entity" /\ e.message = m.message /\ e.file_report = Some(1)
    /\ \E m \in store \cup pending :
        m.type = "Message" /\ m.file_report = None

MessageRows(records, id) ==
    { r \in records : r.type = "Message" /\ r.message = id }

\* the descriptors whose outcome came without an error
Analyzed == (1..yielded) \ raised_ids

BufferBound ==
    /\ Len(new_entities) < commit_batch_size
    /\ \A i \in 1..Len(new_entities) : new_entities[i].type = "Entity"

\* a flush has emptied the buffer and it has been filled again up to one
\* below the threshold
BufferBoundWitness ==
    /\ commits + commit_failures > 0
    /\ new_entities # <<>>
    /\ Len(new_entities) = commit_batch_size - 1

\* the step in which the controller observes the interrupt: nothing is
\* consumed, staged, committed or reported, the workers are terminated with
\* what they hold, and the function returns 1
CancelStep ==
    (pc = "Running" /\ pc' = "Cancelled") =>
        /\ UNCHANGED <<msg_count, new_entities, pending, store, progress>>
        /\ UNCHANGED <<commits, commit_failures, seen>>
        /\ \A w \in Workers : inflight'[w] = <<>>
        /\ outq' = <<>>
        /\ status' = Some(1)

\* once the run is cancelled nothing happens any more
AfterCancel == pc = "Cancelled" => UNCHANGED vars

\* C14 Cancellation sequence: once the controller observes the interrupt
\* while Running it consumes no further outcome and stages nothing more, the
\* pool is terminated and joined and the function returns, without the final
\* flush and without the final progress call; the results of the jobs in
\* flight are never consumed.
CancellationSequence == [][CancelStep /\ AfterCancel]_vars

\* a run cancelled with descriptors yielded but never consumed, a buffer that
\* was not flushed and no progress call for the remainder
CancellationSequenceWitness ==
    /\ pc = "Cancelled"
    /\ msg_count < yielded
    /\ new_entities # <<>>
    /\ Range(new_entities) \cap pending = {}
    /\ msg_count % MSG_PROGRESS_STEP = 1
    /\ progress = <<>>

\* the identifiers of the outcomes the controller has consumed
ConsumedIds == { o.message_id : o \in seen } \cup raised_ids

\* C15 Exactly-once aggregation: whatever the interleaving of the workers and
\* the chunk size, when an uncancelled run has ended every descriptor the
\* source yielded has had its one outcome consumed, no outcome is consumed
\* twice, and every record belongs to one consumed outcome and exists once.
ExactlyOnce ==
    /\ (pc \in {"Completed", "Raised"}) => ConsumedIds = 1..yielded
    /\ Cardinality(seen) + Cardinality(raised_ids) = msg_count
    /\ \A o \in seen : o.message_id \notin raised_ids
    /\ \A r \in store \cup pending \cup Range(new_entities) :
            \E o \in seen : o.message_id = r.message
    /\ \A i, j \in 1..Len(new_entities) :
            new_entities[i] = new_entities[j] => i = j

\* the same, for the runs that end by returning 0
ExactlyOnceCompleted ==
    /\ pc = "Completed" => ConsumedIds = 1..yielded
    /\ Cardinality(seen) + Cardinality(raised_ids) = msg_count
    /\ \A o \in seen : o.message_id \notin raised_ids
    /\ \A r \in store \cup pending \cup Range(new_entities) :
            \E o \in seen : o.message_id = r.message
    /\ \A i, j \in 1..Len(new_entities) :
            new_entities[i] = new_entities[j] => i = j

(* ------------------- worker processes and the interrupt ---------------- *)
\* interrupts delivered to worker processes at most
MaxSignals == 1

\* the worker processes have been started and none has run its initializer
WorkersStarted ==
    /\ initialized = [w \in Workers |-> 0]
    /\ sigint = [w \in Workers |-> "default"]
    /\ signals = 0
    /\ hit = {}
    /\ lost = {}

\* worker_init of libratom.lib.concurrency, as the specification tells it:
\* the worker ignores the interrupt signal from then on
worker_init(w) == [sigint EXCEPT ![w] = "ignore"]

\* a pool built without the initializer
WorkerInitNone(w) ==
    /\ pc = "Running"
    /\ initialized[w] = 0
    /\ initialized' = [initialized EXCEPT ![w] = @ + 1]
    /\ UNCHANGED <<sigint, signals, hit, lost>>
    /\ UNCHANGED <<config, pool, controller, history, export>>

\* Pool(processes=jobs, initializer=worker_init): a worker process calls the
\* initializer once, when it starts, before it takes any task
WorkerInit(w) ==
    /\ pc = "Running"
    /\ initialized[w] = 0
    /\ sigint' = worker_init(w)
    /\ initialized' = [initialized EXCEPT ![w] = @ + 1]
    /\ UNCHANGED <<signals, hit, lost>>
    /\ UNCHANGED <<config, pool, controller, history, export>>

\* SIGINT reaches worker process w.  Where it is ignored nothing happens to
\* the worker.  Where it is not, KeyboardInterrupt ends the process together
\* with the chunk it runs, and the pool starts another process in its place.
WorkerSigint(w) ==
    /\ pc = "Running"
    /\ signals < MaxSignals
    /\ signals' = signals + 1
    /\ IF sigint[w] = "ignore"
       THEN /\ hit' = hit \cup Range(inflight[w])
            /\ UNCHANGED <<inflight, lost, initialized, sigint>>
       ELSE /\ lost' = lost \cup Range(inflight[w])
            /\ inflight' = [inflight EXCEPT ![w] = <<>>]
            /\ initialized' = [initialized EXCEPT ![w] = 0]
            /\ sigint' = [sigint EXCEPT ![w] = "default"]
            /\ hit' = hit
    /\ UNCHANGED <<yielded, src_done, outq>>
    /\ UNCHANGED <<config, controller, history, export>>

\* every outcome waiting for the controller is that of a message of
\* "/a/x.pst" without attachments in which the analysis found nothing, or
\* on which it raised
PlainOutcomes ==
    \A i \in 1..Len(outq) :
        /\ outq[i].res.filepath = "/a/x.pst"
        /\ outq[i].res.attachments = 0
        /\ "entities" \in DOMAIN outq[i].res => outq[i].res.entities = <<>>

PoolInit == ExtractInit /\ WorkersStarted /\ ExportIdle

PoolNext ==
    \/ \E w \in Workers : WorkerInit(w)
    \/ \E w \in Workers : WorkerSigint(w)
    \/ \E w \in Workers : WorkerTake(w)
    \/ \E w \in Workers : WorkerDone(w) /\ PlainOutcomes'
    \/ Consume
    \/ Finish
    \/ Interrupt

\* the run seen with its worker processes: they start uninitialized and an
\* interrupt may reach any of them at any time
PoolSpec == PoolInit /\ [][PoolNext]_vars

\* the message ids of the outcomes waiting for the controller
QueuedIds == { outq[i].res.message_id : i \in 1..Len(outq) }

\* the message ids of the chunks the workers run
RunningIds == UNION { Range(inflight[w]) : w \in Workers }

\* C16 Interrupt handling exclusive to the controller: a worker has run its
\* initializer exactly once before it holds a job and ignores the interrupt
\* from then on, so no interrupt ever makes a worker drop a job; while the
\* controller has not terminated the pool every descriptor handed out is
\* still with a worker, waiting for the controller, or consumed.
InterruptExclusive ==
    /\ \A w \in Workers : initialized[w] <= 1
    /\ \A w \in Workers :
        inflight[w] # <<>> => initialized[w] = 1 /\ sigint[w] = "ignore"
    /\ lost = {}
    /\ pc = "Running" =>
        1..yielded = ConsumedIds \cup QueuedIds \cup RunningIds

\* an interrupt reached a worker while it held a job, the worker finished
\* the job all the same and the controller, still running, consumed it
InterruptExclusiveWitness ==
    /\ pc = "Running"
    /\ ~interrupted
    /\ hit \cap ConsumedIds # {}

(* ------------------------------ fairness ------------------------------- *)
\* a worker that can take or return a chunk eventually does, and so does
\* the controller with an outcome that waits or a stream that has ended
Fairness ==
    /\ \A w \in Workers : WF_vars(WorkerTake(w)) /\ WF_vars(WorkerDone(w))
    /\ WF_vars(Consume)
    /\ WF_vars(Finish)

FairSpec == Init /\ [][Next]_vars /\ Fairness

\* C17 Termination: with a finite message source and every dispatched job
\* returning, every run eventually reaches Completed or Cancelled.
Termination == <>(pc \in {"Completed", "Cancelled"})

\* every fair run ends: completed, cancelled, or by raising
TerminationOrRaise == <>(pc \in {"Completed", "Cancelled", "Raised"})

\* the converse: the run completes only in a step in which no job is still
\* out, so a job that never returns keeps an uninterrupted run from ending
CompletesWhenAllReturned ==
    [][pc' = "Completed" => (\A w \in Workers : inflight[w] = <<>>) /\ outq = <<>>]_vars

(* ----------------------- export_messages_from_file --------------------- *)
\* message ids handed to one export at most
MaxIds == 3

\* the values a message id may have: two that read as integers and one that
\* does not
MsgIdValues == {"1", "2", "x"}

\* the identifiers of the messages the archive holds
ArchiveIds == {1}

\* int(msg_id): the integer, or ValueError (None)
int(msg_id) ==
    IF msg_id = "1" THEN Some(1)
    ELSE IF msg_id = "2" THEN Some(2)
    ELSE None

\* extract_message_from_archive(archive, int(msg_id)) returns a message
Extracts(msg_id) == \E n \in int(msg_id) : n \in ArchiveIds

\* open(mode="w") of f"{msg_id}.eml": an older file of that name is replaced
eml_file(msg_id, complete) ==
    { f \in files : f.name # msg_id } \cup {[name |-> msg_id, complete |-> complete]}

\* the destination folder exists and the archive is open: the loop starts
ExportInit ==
    /\ ExtractInit /\ msg_batch_size = 1 /\ commit_batch_size = 1 /\ ~src_done
    /\ WorkersReady
    /\ msg_ids \in UNION { [1..n -> MsgIdValues] : n \in 0..MaxIds }
    /\ attempted = <<>>
    /\ files = {}
    /\ warnings = <<>>
    /\ export_pc = "loop"

\* the loop body without its try/except: the exception leaves the function
ExportMessageUncaught ==
    /\ export_pc = "loop"
    /\ Len(attempted) < Len(msg_ids)
    /\ LET msg_id == msg_ids[Len(attempted) + 1]
       IN  /\ attempted' = Append(attempted, msg_id)
           /\ \E fault \in {"none", "open", "flatten"} :
                IF ~Extracts(msg_id) \/ fault = "open"
                THEN /\ export_pc' = "raised"
                     /\ UNCHANGED <<files, warnings>>
                ELSE IF fault = "flatten"
                THEN /\ export_pc' = "raised"
                     /\ files' = eml_file(msg_id, FALSE)
                     /\ UNCHANGED warnings
                ELSE /\ files' = eml_file(msg_id, TRUE)
                     /\ UNCHANGED <<warnings, export_pc>>
    /\ UNCHANGED <<msg_ids, config, pool, controller, history, processes>>

\* one iteration of "for msg_id in msg_ids": extract the message and write
\* it; any Exception of the two is logged as a warning and the loop goes on
ExportMessage ==
    /\ export_pc = "loop"
    /\ Len(attempted) < Len(msg_ids)
    /\ LET msg_id == msg_ids[Len(attempted) + 1]
       IN  /\ attempted' = Append(attempted, msg_id)
           /\ \E fault \in {"none", "open", "flatten"} :
                IF ~Extracts(msg_id) \/ fault = "open"
                THEN /\ warnings' = Append(warnings, msg_id)
                     /\ UNCHANGED files
                ELSE IF fault = "flatten"
                THEN /\ warnings' = Append(warnings, msg_id)
                     /\ files' = eml_file(msg_id, FALSE)
                ELSE /\ files' = eml_file(msg_id, TRUE)
                     /\ UNCHANGED warnings
    /\ UNCHANGED <<msg_ids, export_pc, config, pool, controller, history, processes>>

\* msg_ids is exhausted: the archive is closed and the function returns
ExportReturn ==
    /\ export_pc = "loop"
    /\ Len(attempted) = Len(msg_ids)
    /\ export_pc' = "returned"
    /\ UNCHANGED <<msg_ids, attempted, files, warnings>>
    /\ UNCHANGED <<config, pool, controller, history, processes>>

ExportNext == ExportMessage \/ ExportReturn

ExportSpec == ExportInit /\ [][ExportNext]_vars

\* C18 Export isolation: an exception raised while one message id is
\* extracted or written is caught and logged and does not leave the
\* function; every id of the list is attempted, in order, before the
\* function returns, and every id attempted has its complete file or its
\* warning.
ExportIsolation ==
    /\ export_pc # "raised"
    /\ attempted = SubSeq(msg_ids, 1, Len(attempted))
    /\ export_pc = "returned" => attempted = msg_ids
    /\ \A i \in 1..Len(warnings) : \E j \in 1..Len(attempted) : warnings[i] = attempted[j]
    /\ \A i \in 1..Len(attempted) :
        \/ \E j \in 1..Len(warnings) : warnings[j] = attempted[i]
        \/ [name |-> attempted[i], complete |-> TRUE] \in files

\* an export that returned after its first id failed, with a later id
\* written
ExportIsolationWitness ==
    /\ export_pc = "returned"
    /\ Len(msg_ids) > 1
    /\ warnings # <<>>
    /\ warnings[1] = msg_ids[1]
    /\ \E i \in 2..Len(msg_ids) : [name |-> msg_ids[i], complete |-> TRUE] \in files

RowsOf(records, type, id) ==
    { r \in records : r.type = type /\ r.message = id }

\* C19 Co-commit: the Message, the Attachments and the Entities of one
\* outcome are committed together: the store never holds an Entity or an
\* Attachment without its Message, never holds records of an outcome of
\* which other records are still pending, buffered or rolled back, and a
\* persisted Message has all its attachments and entities persisted.
CoCommit ==
    /\ \A r \in store :
        \A q \in pending \cup Range(new_entities) \cup dropped :
            q.message # r.message
    /\ \A r \in store : RowsOf(store, "Message", r.message) # {}
    /\ \A o \in seen :
        RowsOf(store, "Message", o.message_id) # {} =>
            /\ Cardinality(RowsOf(store, "Entity", o.message_id)) = o.entities
            /\ Cardinality(RowsOf(store, "Attachment", o.message_id)) = o.attachments

\* a Message is persisted with its attachment and its two entities while the
\* records of another outcome wait in the session and in the buffer
CoCommitWitness ==
    /\ \E o \in seen :
        /\ o.entities = 2 /\ o.attachments = 1
        /\ RowsOf(store, "Message", o.message_id) # {}
    /\ new_entities # <<>>
    /\ \E m \in pending : m.type = "Message"

\* the records one outcome stands for
RecordsOf(o) ==
    {[type |-> "Message", message |-> o.message_id, k |-> 0,
      file_report |-> o.file_report]}
    \cup {[type |-> "Attachment", message |-> o.message_id, k |-> i,
           file_report |-> o.file_report] : i \in 1..o.attachments}
    \cup {[type |-> "Entity", message |-> o.message_id, k |-> i,
           file_report |-> o.file_report] : i \in 1..o.entities}

\* C20 Order independence: without commit failure and without cancellation,
\* the records staged or persisted when extract_entities returns are those
\* of the set of outcomes without an error, one Message, its Attachments and
\* its Entities for each, whatever the order in which the outcomes arrived
\* and wherever the commits fell.
OrderIndependence ==
    (pc = "Completed" /\ commit_failures = 0) =>
        /\ { o.message_id : o \in seen } = Analyzed
        /\ \A o1, o2 \in seen : o1.message_id = o2.message_id => o1 = o2
        /\ store \cup pending = UNION { RecordsOf(o) : o \in seen }

\* a completed run in which the outcome of the second message arrived and
\* was committed before the outcome of the first, which has an attachment
OrderIndependenceWitness ==
    /\ pc = "Completed" /\ commit_failures = 0
    /\ RowsOf(store, "Message", 2) # {}
    /\ RowsOf(pending, "Message", 1) # {}
    /\ RowsOf(pending, "Attachment", 1) # {}

\* C21 Frame of the cancellation handler: the handler neither commits nor
\* rolls back, so when the run is cancelled the store is what the successful
\* commits made it, the Messages and Attachments created since the last
\* commit attempt are all still pending, and the Entities of those same
\* messages are in the local buffer only, neither staged nor stored.
CancellationFrame ==
    pc = "Cancelled" =>
        /\ store = durable
        /\ pending = { r \in batch : r.type # "Entity" }
        /\ Range(new_entities) = EntityRows(batch)
        /\ Range(new_entities) \cap (pending \cup store) = {}
        /\ \A e \in Range(new_entities) :
                RowsOf(pending, "Message", e.message) # {}

\* a run cancelled after a commit, with a Message and its Attachment pending
\* and the entities of that Message in the buffer
CancellationFrameWitness ==
    /\ pc = "Cancelled"
    /\ store # {}
    /\ \E a \in pending :
        /\ a.type = "Attachment"
        /\ RowsOf(pending, "Message", a.message) # {}
        /\ \E e \in Range(new_entities) : e.message = a.message

====
